---------------------------- MODULE Spec2Model ----------------------------
(***************************************************************************)
(* A model of lineProfLTE.py: one call of lineProfLTE, from its safety     *)
(* check to the brightness temperatures it returns (or the exception it    *)
(* ends in).                                                               *)
(*                                                                         *)
(* Units.  The sightline coordinate x and the resonance point r_los are    *)
(* integers in thousandths of the cloud radius (1000 is the cloud edge).   *)
(* offset, beamdisp and the quadrature nodes are in tenths of the cloud     *)
(* radius (10 is the cloud edge).  Velocities are integers in millionths   *)
(* of a velocity unit, so that the factor (1 + 1e-6) of the grid is exact. *)
(*                                                                         *)
(* Floating-point values whose magnitude the claims do not depend on       *)
(* (intensities, brightness temperatures) are kept as IEEE classes:        *)
(* "nan", "neg", "zero", "pos" (finite) and "inf" (+infinity).             *)
(*                                                                         *)
(* scipy's fmin, odeint and quad are library code: fmin's result, the      *)
(* number of steps odeint needs and the value it returns are chosen        *)
(* nondeterministically; what the program hands to them is computed as     *)
(* the program computes it.                                                *)
(***************************************************************************)
EXTENDS Integers, Sequences, FiniteSets, TLC

VARIABLES
    args,      \* the arguments of the call (never changed)
    pc,        \* "check", "context", "grid", "alloc", "loop", "convert", "returned", "raised"
    raised,    \* the exception the call ended in, NoError while none
    te,        \* the _transferEqn object, NoContext before step 2
    vOut,      \* the velocity grid in use (step 3), <<>> before
    gridFrom,  \* which input the grid was built from: "none", "vOut", "vLim", "dv", "auto"
    iOut,      \* intensity class per velocity done so far (step 4)
    pencils,   \* the LineProfLTE_pencil evaluations made for the latest velocity
    truncated, \* some odeint call so far stopped at its step limit before its end point
    TB         \* the returned brightness temperature classes, <<>> before step 5

vars == <<args, pc, raised, te, vOut, gridFrom, iOut, pencils, truncated, TB>>

-----------------------------------------------------------------------------
(* Bounds of the model *)

\* nOut ranges over 2..MaxNOut
MaxNOut == 2

(* Program constants *)

\* the step limit written into the interior-branch odeint calls
HardMxstep == 10000
\* the default of the mxstep parameter
DefaultMxstep == 10000
\* the factor of sigmaTot in the automatic velocity limits
AutoWidth == 5

\* one velocity unit in millionths; one cloud radius in thousandths and in tenths
Million == 1000 * 1000
Edge == 10 * 100
EdgeTenths == 2 * 5

NoError == [type |-> "none", msg |-> ""]
NoContext == [built |-> FALSE]

Abs(n) == IF n < 0 THEN -n ELSE n

\* floor of the square root, for np.sqrt on the model's integer units (by
\* bisection; 46340 is the largest root of a 32-bit integer)
RECURSIVE SqrtBetween(_, _, _)
SqrtBetween(n, lo, hi) ==
    IF hi - lo <= 1 THEN lo
    ELSE LET mid == (lo + hi) \div 2
         IN IF mid * mid <= n THEN SqrtBetween(n, mid, hi) ELSE SqrtBetween(n, lo, mid)
ISqrt(n) == SqrtBetween(n, 0, IF n < 46340 THEN n + 1 ELSE 46340)

-----------------------------------------------------------------------------
(* The inputs *)

\* a profile argument: a float, or a callable with the given value at r = 1
Float(x) == [kind |-> "float", edge |-> x]
Callable(x) == [kind |-> "callable", edge |-> x]

\* (denProf, TProf, vProf) triples: positive density and temperature, or one
\* of them with a zero edge value; vProf is a float (0.0 is its default)
ProfileTriples ==
    { <<Float(1), Float(16), 0>>, <<Callable(1), Callable(16), 3>>,
      <<Float(0), Float(16), 3>>, <<Callable(0), Float(16), 0>>,
      <<Float(1), Float(0), 0>> }

\* the explicit velocity argument: None, a list, or a numpy array
VOutArgs ==
    { [kind |-> "None", vals |-> <<>>],
      [kind |-> "list", vals |-> <<0>>],
      [kind |-> "array", vals |-> <<0>>],
      [kind |-> "array", vals |-> <<-2 * Million, 2 * Million>>] }

\* optional arguments are sequences: <<>> is None
VLimArgs == { <<>>, <<-6 * Million, 6 * Million>> }
DvArgs == { <<>>, <<2 * Million>> }

\* elementwiseNone is how the installed numpy compares an array with None
\* (elementwise, or as one FALSE); it is read for an array vOut only, so it is
\* varied for an array vOut only
Args ==
  { a \in
    [ EinsteinA : {0, 1},
      offset    : {-1, 0, 10, 15},
      beamdisp  : {0, 5},
      profiles  : ProfileTriples,
      vOut      : VOutArgs,
      vLim      : VLimArgs,
      dv        : DvArgs,
      nOut      : 2..MaxNOut,
      mxstep    : {500, DefaultMxstep},
      elementwiseNone : BOOLEAN ] :
    a.elementwiseNone => a.vOut.kind = "array" }

Init ==
    /\ args \in Args
    /\ pc = "check"
    /\ raised = NoError
    /\ te = NoContext
    /\ vOut = <<>>
    /\ gridFrom = "none"
    /\ iOut = <<>>
    /\ pencils = <<>>
    /\ truncated = FALSE
    /\ TB = <<>>

Raise(type, msg) ==
    /\ pc' = "raised"
    /\ raised' = [type |-> type, msg |-> msg]

-----------------------------------------------------------------------------
(* Step 1: safety check *)

\* the name the first raise statement evaluates: depoticError is bound nowhere
\* in the module (the import binds despoticError), so evaluating it raises
\* NameError before any exception object is made
NoTransitionRaise == [type |-> "NameError", msg |-> "name 'depoticError' is not defined"]

\* a variant that also rejects the two boundary offsets
OffsetOutOfRangeStrict(offset) == offset <= 0 \/ offset >= EdgeTenths

OffsetOutOfRange(offset) == offset < 0 \/ offset > EdgeTenths

SafetyCheck ==
    /\ pc = "check"
    /\ IF args.EinsteinA = 0
         THEN Raise(NoTransitionRaise.type, NoTransitionRaise.msg)
         ELSE IF OffsetOutOfRange(args.offset)
           THEN Raise("despoticError", "offset must be in the range 0 - 1")
           ELSE IF args.beamdisp > 0 /\ args.offset > 0
             THEN Raise("despoticError", "offset > 0 with Gaussian beams not yet implemented")
             ELSE pc' = "context" /\ UNCHANGED raised
    /\ UNCHANGED <<args, te, vOut, gridFrom, iOut, pencils, truncated, TB>>

-----------------------------------------------------------------------------
(* Step 2: the _transferEqn object *)

\* _transferEqn.__init__: the edge values and what is derived from them.
\* Model units: kB/(molWgt*mH) = 1, so cs0 = sqrt(T0); EinsteinA*h*R = 1, so
\* I0 = d0.  No branch of __init__ raises: a zero d0 or T0 is stored as any
\* other value (numpy float division by zero warns and yields inf or nan).
TransferEqn(a) ==
    LET d0 == a.profiles[1].edge
        T0 == a.profiles[2].edge
        cs0 == ISqrt(T0)
    IN [ built |-> TRUE,
         d0 |-> d0,
         T0 |-> T0,
         dnorm |-> IF a.profiles[1].kind = "float" THEN 1 ELSE d0,
         Tnorm |-> IF a.profiles[2].kind = "float" THEN 1 ELSE T0,
         v0 |-> a.profiles[3],
         I0 |-> d0,
         offset |-> a.offset,
         sigmaTot |-> ISqrt(cs0 * cs0 + a.profiles[3] * a.profiles[3]) ]

BuildContext ==
    /\ pc = "context"
    /\ te' = TransferEqn(args)
    /\ pc' = "grid"
    /\ UNCHANGED <<args, raised, vOut, gridFrom, iOut, pencils, truncated, TB>>

-----------------------------------------------------------------------------
(* Step 3: the velocity grid *)

CeilDiv(a, b) == -((-a) \div b)

\* np.arange(start, stop, step): ceil((stop - start)/step) values from start
ArangeLen(start, stop, step) ==
    LET n == IF step > 0 THEN CeilDiv(stop - start, step)
                         ELSE CeilDiv(start - stop, -step)
    IN IF n > 0 THEN n ELSE 0

Arange(start, stop, step) ==
    [k \in 1..ArangeLen(start, stop, step) |-> start + (k - 1) * step]

\* vLim = [-5*te.sigmaTot - abs(te.v0), 5*te.sigmaTot + abs(te.v0)]
AutoLim(t) ==
    << (-AutoWidth * t.sigmaTot - Abs(t.v0)) * Million,
       (AutoWidth * t.sigmaTot + Abs(t.v0)) * Million >>

\* np.arange(vLim[0], vLim[1]*(1.0+1e-6), (vLim[1]-vLim[0])/(nOut-1))
LimStart(lim) == lim[1]
LimStop(lim) == lim[2] + lim[2] \div Million
LimStep(lim, nOut) == (lim[2] - lim[1]) \div (nOut - 1)

\* np.arange(-dv*(nOut/2.0), dv*(nOut/2.0+1.0e-6), dv)
DvStart(dv, nOut) == -((dv * nOut) \div 2)
DvStop(dv, nOut) == (dv * nOut) \div 2 + dv \div Million

\* the truth value of `vOut == None`: "true", "false", or "ambiguous" (an
\* elementwise comparison of an array of more than one element has no truth
\* value, and `if` raises ValueError)
VOutIsNone(a) ==
    IF a.vOut.kind = "None" THEN "true"
    ELSE IF a.vOut.kind = "array" /\ a.elementwiseNone /\ Len(a.vOut.vals) > 1
      THEN "ambiguous"
      ELSE "false"

\* a variant that tests vLim before dv
GridSourceVLimFirst(a) ==
    IF VOutIsNone(a) # "true" THEN "vOut"
    ELSE IF a.vLim = <<>>
      THEN IF a.dv = <<>> THEN "auto" ELSE "dv"
      ELSE "vLim"

\* which input the grid is built from: the nesting of the three tests
GridSource(a) ==
    IF VOutIsNone(a) # "true" THEN "vOut"
    ELSE IF a.dv = <<>>
      THEN IF a.vLim = <<>> THEN "auto" ELSE "vLim"
      ELSE "dv"

BuildGrid ==
    /\ pc = "grid"
    /\ IF VOutIsNone(args) = "ambiguous"
         THEN /\ Raise("ValueError", "truth value of an array is ambiguous")
              /\ UNCHANGED <<vOut, gridFrom>>
         ELSE LET src == GridSource(args)
                  lim == IF src = "auto" THEN AutoLim(te) ELSE args.vLim
              IN CASE src = "vOut" ->
                        /\ vOut' = args.vOut.vals
                        /\ gridFrom' = src
                        /\ pc' = "alloc"
                        /\ UNCHANGED raised
                   [] src = "dv" ->
                        /\ vOut' = Arange(DvStart(args.dv[1], args.nOut),
                                          DvStop(args.dv[1], args.nOut), args.dv[1])
                        /\ gridFrom' = src
                        /\ pc' = "alloc"
                        /\ UNCHANGED raised
                   [] OTHER ->
                        IF LimStep(lim, args.nOut) = 0
                          THEN /\ Raise("ZeroDivisionError", "arange with a zero step")
                               /\ UNCHANGED <<vOut, gridFrom>>
                          ELSE /\ vOut' = Arange(LimStart(lim), LimStop(lim),
                                                 LimStep(lim, args.nOut))
                               /\ gridFrom' = src
                               /\ pc' = "alloc"
                               /\ UNCHANGED raised
    /\ UNCHANGED <<args, te, iOut, pencils, truncated, TB>>

\* iOut = np.zeros(vOut.shape): a list has no attribute shape
AllocOut ==
    /\ pc = "alloc"
    /\ IF args.vOut.kind = "list"
         THEN Raise("AttributeError", "'list' object has no attribute 'shape'")
         ELSE pc' = "loop" /\ UNCHANGED raised
    /\ UNCHANGED <<args, te, vOut, gridFrom, iOut, pencils, truncated, TB>>

-----------------------------------------------------------------------------
(* Floating-point classes *)

FClass == {"nan", "neg", "zero", "pos", "inf"}

\* abs(x)
FAbs(x) == IF x = "neg" THEN "pos" ELSE x

\* -x, for the classes a brightness temperature takes
FNeg(x) ==
    CASE x = "pos" -> "neg"
      [] x = "neg" -> "pos"
      [] x = "inf" -> "neg"
      [] OTHER -> x

\* x*y for y >= 0 finite
FMul(x, y) ==
    CASE x = "nan" -> "nan"
      [] y = "zero" -> IF x = "inf" THEN "nan" ELSE "zero"
      [] OTHER -> x

\* x + small for x >= 0
FAddSmall(x) == IF x = "zero" THEN "pos" ELSE x

\* x/y for x > 0 finite and y >= 0 (numpy: division by zero gives inf)
FDivPos(y) ==
    CASE y = "nan" -> "nan"
      [] y = "zero" -> "inf"
      [] y = "inf" -> "zero"
      [] OTHER -> "pos"

\* np.log(1.0 + y) for y >= 0
FLog1p(y) == y

\* the class of a positive number is "pos", of zero "zero"
ClassOf(n) == IF n > 0 THEN "pos" ELSE IF n = 0 THEN "zero" ELSE "neg"

-----------------------------------------------------------------------------
(* LineProfLTE_pencil *)

\* np.log(n): finite for n > 0, -inf for n = 0, nan for n < 0
Log(n) == [coord |-> "log", arg |-> n,
           value |-> IF n > 0 THEN "finite" ELSE IF n = 0 THEN "-inf" ELSE "nan"]
Lin(n) == [coord |-> "lin", arg |-> n]

\* the branch test on fmin's result
InteriorTest(r_los) == r_los < Edge

\* the breakpoints and the two lists that go with them
XLim(r_los) ==
    << -Edge, -((11 * r_los) \div 10), -r_los, -(r_los \div 10), -(r_los \div 100),
       r_los \div 100, r_los \div 10, r_los, (11 * r_los) \div 10, Edge >>
Logscale == << TRUE, TRUE, TRUE, TRUE, FALSE, TRUE, TRUE, TRUE, TRUE, TRUE >>
Sgn == << -1, -1, -1, -1, -1, 0, 1, 1, 1, 1, 1 >>

\* the step limit handed to odeint in the interior branch and in the exterior one
InteriorMxstep(mxstep) == HardMxstep
ExteriorMxstep(mxstep) == mxstep

\* np.sqrt(1.0 - offset**2), offset in tenths, the result in thousandths
SLimOf(offset) == ISqrt(Edge * Edge - (100 * offset) * (100 * offset))

\* the odeint call of segment i of the interior branch; y0 = 0 is ICMB and
\* y0 = k the value call k returned
InteriorCall(i, r_los, t, mxstep) ==
    IF Logscale[i]
      THEN [ fn |-> "rhs_log", y0 |-> i - 1,
             t0 |-> Log(Sgn[i] * XLim(r_los)[i]),
             t1 |-> Log(Sgn[i] * XLim(r_los)[i + 1]),
             from |-> XLim(r_los)[i], to |-> XLim(r_los)[i + 1],
             sgn |-> Sgn[i],
             mxstep |-> InteriorMxstep(mxstep), rhsOffset |-> t.offset ]
      ELSE [ fn |-> "rhs", y0 |-> i - 1,
             t0 |-> Lin(XLim(r_los)[i]), t1 |-> Lin(XLim(r_los)[i + 1]),
             from |-> XLim(r_los)[i], to |-> XLim(r_los)[i + 1],
             mxstep |-> InteriorMxstep(mxstep), rhsOffset |-> t.offset ]

ExteriorCall(t, offset, mxstep) ==
    [ fn |-> "rhs", y0 |-> 0,
      t0 |-> Lin(-SLimOf(offset)), t1 |-> Lin(SLimOf(offset)),
      from |-> -SLimOf(offset), to |-> SLimOf(offset),
      mxstep |-> ExteriorMxstep(mxstep), rhsOffset |-> t.offset ]

\* the odeint calls LineProfLTE_pencil makes, in order, once fmin returned r_los
OdeintCalls(t, offset, mxstep, r_los) ==
    IF InteriorTest(r_los)
      THEN [i \in 1..(Len(XLim(r_los)) - 1) |-> InteriorCall(i, r_los, t, mxstep)]
      ELSE << ExteriorCall(t, offset, mxstep) >>

\* one evaluation of LineProfLTE_pencil(v, te, offset=offset, mxstep=mxstep)
LineProfLTE_pencil(v, t, offset, mxstep, r_los) ==
    [ v |-> v,
      sign |-> IF v < 0 THEN -1 ELSE 1,
      offset |-> offset,
      r_los |-> r_los,
      branch |-> IF InteriorTest(r_los) THEN "interior" ELSE "exterior",
      calls |-> OdeintCalls(t, offset, mxstep, r_los) ]

\* ICMB = (2*h*te.freq**3/c**2) / (np.exp(...)-1.0) / te.I0
ICMB(t) == FDivPos(ClassOf(t.I0))

\* what fmin can return (thousandths): inside the cloud on either side of 0,
\* on the edge, and outside on either side
FminResults == {-1500, -500, 500, 1000}

\* the steps the hardest segment needs
StepsNeeded == {100, 5000, 20000}

\* odeint stops at its step limit, warns, and returns what it has
Exhausted(p, need) == \E k \in 1..Len(p.calls) : need > p.calls[k].mxstep

\* the value odeint returns for the last segment: any float from a finite
\* start (it may grow to +infinity); from an infinite or nan start it stays
\* infinite or nan
OdeintResults(y0) ==
    IF y0 \in {"inf", "nan"} THEN {"inf", "nan"}
    ELSE {"neg", "zero", "pos", "inf", "nan"}

\* Itmp -= ICMB
SubICMB(itmp, icmb) ==
    CASE itmp = "nan" \/ icmb = "nan" -> {"nan"}
      [] itmp = "inf" /\ icmb = "inf" -> {"nan"}
      [] itmp = "inf" -> {"inf"}
      [] icmb = "inf" -> {"neg"}
      [] itmp = "pos" -> {"neg", "zero", "pos"}
      [] OTHER -> {"neg"}

-----------------------------------------------------------------------------
(* Step 4: the loop over the velocities *)

\* the offset the pencil evaluations are called with
PencilOffset(a) == a.offset

\* the impact parameters quad evaluates its integrand at (tenths)
QuadNodes == << 5, 1, 9 >>

\* the offset the lambda hands to LineProfLTE_pencil at node r
BeamOffset(a, r) == a.offset

Velocity == vOut[Len(iOut) + 1]

\* the intensities one evaluation can end in
Intensities(t) ==
    UNION { SubICMB(itmp, ICMB(t)) : itmp \in OdeintResults(ICMB(t)) }

\* whether an odeint call of the evaluation can, or must, stop at its limit
ExhaustedOutcomes(p) == { Exhausted(p, need) : need \in StepsNeeded }

PencilStep ==
    /\ pc = "loop"
    /\ Len(iOut) < Len(vOut)
    /\ args.beamdisp = 0
    /\ \E r_los \in FminResults :
         LET p == LineProfLTE_pencil(Velocity, te, PencilOffset(args), args.mxstep, r_los)
         IN /\ pencils' = << [node |-> <<>>, eval |-> p] >>
            /\ \E ex \in ExhaustedOutcomes(p) : truncated' = (truncated \/ ex)
    /\ \E I \in Intensities(te) : iOut' = Append(iOut, I)
    /\ UNCHANGED <<args, pc, raised, te, vOut, gridFrom, TB>>

\* 1.0/beamdisp**2 * quad(lambda r: r*exp(-r**2/(2*beamdisp**2)) * pencil, 0, 1)[0]:
\* fmin, and with it every evaluation, depends on v and te alone, and the
\* weights are positive, so the integral has the class of the pencil value
BeamStep ==
    /\ pc = "loop"
    /\ Len(iOut) < Len(vOut)
    /\ args.beamdisp # 0
    /\ \E r_los \in FminResults :
         LET ev == [n \in 1..Len(QuadNodes) |->
                      LineProfLTE_pencil(Velocity, te, BeamOffset(args, QuadNodes[n]),
                                         args.mxstep, r_los)]
         IN /\ pencils' = [n \in 1..Len(QuadNodes) |->
                             [node |-> << QuadNodes[n] >>, eval |-> ev[n]]]
            /\ \E ex \in ExhaustedOutcomes(ev[1]) : truncated' = (truncated \/ ex)
    /\ \E I \in Intensities(te) : iOut' = Append(iOut, I)
    /\ UNCHANGED <<args, pc, raised, te, vOut, gridFrom, TB>>

LoopDone ==
    /\ pc = "loop"
    /\ Len(iOut) = Len(vOut)
    /\ pc' = "convert"
    /\ UNCHANGED <<args, raised, te, vOut, gridFrom, iOut, pencils, truncated, TB>>

-----------------------------------------------------------------------------
(* Steps 5 and 6: brightness temperature *)

\* (h*freq/kB) / np.log(1.0 + 2.0*h*freq**3 / (c**2*abs(iOut)*te.I0+small))
RawTB(I, t) == FDivPos(FLog1p(FDivPos(FAddSmall(FMul(FAbs(I), ClassOf(t.I0))))))

\* TB[iOut < 0] *= -1.0
FlipNegative(I, tb) == IF I = "neg" THEN FNeg(tb) ELSE tb

\* a variant without the assignment at zero intensity
ZeroAtZeroSkipped(I, tb) == tb

\* TB[iOut == 0.0] = 0.0
ZeroAtZero(I, tb) == IF I = "zero" THEN "zero" ELSE tb

BrightnessTemperature(I, t) == ZeroAtZero(I, FlipNegative(I, RawTB(I, t)))

ConvertAndReturn ==
    /\ pc = "convert"
    /\ TB' = [k \in 1..Len(iOut) |-> BrightnessTemperature(iOut[k], te)]
    /\ pc' = "returned"
    /\ UNCHANGED <<args, raised, te, vOut, gridFrom, iOut, pencils, truncated>>

Next ==
    \/ SafetyCheck
    \/ BuildContext
    \/ BuildGrid
    \/ AllocOut
    \/ PencilStep
    \/ BeamStep
    \/ LoopDone
    \/ ConvertAndReturn

Spec == Init /\ [][Next]_vars

-----------------------------------------------------------------------------
(* The claims *)

SafetyChecked == pc # "check"

\* C1: a call whose pair (u,l) has EinsteinA[u,l] = 0 ends in despoticError,
\* before the transfer context is built and before any resonance search or
\* integration step.
C1_NoTransitionIsDespoticError ==
    (args.EinsteinA = 0 /\ SafetyChecked) =>
        /\ pc = "raised"
        /\ raised.type = "despoticError"
        /\ te = NoContext
        /\ pencils = <<>>
        /\ iOut = <<>>

OffsetError == [type |-> "despoticError", msg |-> "offset must be in the range 0 - 1"]

\* C2: with a valid transition, the call ends in the invalid-offset error for
\* every offset < 0 or > 1 and never for an offset in [0,1]; the boundary
\* offsets 0.0 and 1.0, with beam dispersion 0, go on to context construction.
C2_OffsetRange ==
    (args.EinsteinA # 0 /\ SafetyChecked) =>
        IF args.offset < 0 \/ args.offset > 10
          THEN pc = "raised" /\ raised = OffsetError /\ te = NoContext
          ELSE /\ raised # OffsetError
               /\ args.beamdisp = 0 => (pc = "context" \/ te.built)

C2_BoundaryAccepted ==
    /\ args.offset = 10
    /\ args.beamdisp = 0
    /\ te.built
    /\ pc = "grid"

GridBuilt == gridFrom # "none"

\* C3 as stated: vOut wins; otherwise vLim wins over dv; otherwise dv;
\* otherwise the automatic limits.
C3_VLimBeforeDv ==
    GridBuilt =>
        gridFrom = IF args.vOut.kind # "None" THEN "vOut"
                   ELSE IF args.vLim # <<>> THEN "vLim"
                   ELSE IF args.dv # <<>> THEN "dv"
                   ELSE "auto"

EvenlySpaced(grid, first, step, n) ==
    /\ Len(grid) = n
    /\ \A k \in 1..n : grid[k] = first + (k - 1) * step

\* C3 as amended: whenever a grid is built, an explicit vOut wins; otherwise
\* dv (with the count) wins over vLim; otherwise vLim with the count is used;
\* only with none of the three is the grid derived from
\* +-(5*sigmaTot + |v0|).  So with both vLim and dv the grid is the dv grid.
C3_DvBeforeVLim ==
    GridBuilt =>
        IF args.vOut.kind # "None"
          THEN gridFrom = "vOut" /\ vOut = args.vOut.vals
        ELSE IF args.dv # <<>>
          THEN /\ gridFrom = "dv"
               /\ EvenlySpaced(vOut, -((args.dv[1] * args.nOut) \div 2),
                               args.dv[1], args.nOut + 1)
        ELSE IF args.vLim # <<>>
          THEN /\ gridFrom = "vLim"
               /\ EvenlySpaced(vOut, args.vLim[1],
                               (args.vLim[2] - args.vLim[1]) \div (args.nOut - 1),
                               args.nOut)
        ELSE /\ gridFrom = "auto"
             /\ EvenlySpaced(vOut, -(5 * te.sigmaTot + Abs(te.v0)) * Million,
                             (2 * (5 * te.sigmaTot + Abs(te.v0)) * Million)
                                 \div (args.nOut - 1),
                             args.nOut)

C3_BothGivenUsesDv ==
    /\ args.vOut.kind = "None"
    /\ args.vLim # <<>>
    /\ args.dv # <<>>
    /\ gridFrom = "dv"
    /\ Len(vOut) = args.nOut + 1

IsPositive(x) == x \in {"pos", "inf"}

\* C4: the returned TB has one entry per velocity of the returned grid, each
\* computed from the intensity at that velocity, and its sign is the sign of
\* that intensity: TB is exactly 0 iff the intensity is exactly 0, negative
\* when it is negative and positive when it is positive.
C4_SignOfTB ==
    /\ (pc = "loop" /\ iOut # <<>>) =>
          \A n \in 1..Len(pencils) : pencils[n].eval.v = vOut[Len(iOut)]
    /\ pc = "returned" =>
          /\ Len(TB) = Len(vOut)
          /\ Len(iOut) = Len(vOut)
          /\ \A k \in 1..Len(TB) :
                /\ TB[k] = "zero" <=> iOut[k] = "zero"
                /\ iOut[k] = "neg" => TB[k] = "neg"
                /\ IsPositive(iOut[k]) => IsPositive(TB[k])

C4_AllSignsReturned ==
    /\ pc = "returned"
    /\ \E j, k \in 1..Len(TB) :
          /\ iOut[j] = "zero" /\ TB[j] = "zero"
          /\ iOut[k] = "neg" /\ TB[k] = "neg"

\* C5: whenever an integration uses up its step budget before the segment's
\* end point, the call ends in an integration-diverged error; no call returns
\* a brightness temperature computed from a truncated integration.
C5_ExhaustionIsAnError ==
    /\ pc = "returned" => ~truncated
    /\ (truncated /\ pc \in {"convert", "returned", "raised"}) =>
          raised.type = "IntegrationDivergedError"

AllCalls(P(_)) ==
    \A n \in 1..Len(pencils) :
        \A k \in 1..Len(pencils[n].eval.calls) : P(pencils[n].eval.calls[k])

HasCallersLimit(call) == call.mxstep = args.mxstep

\* C6: the step limit handed to the ODE solver is the caller's mxstep for
\* every integration segment, in the interior branch as in the exterior one.
C6_CallersStepLimit == AllCalls(HasCallersLimit)

ZeroEdge == args.profiles[1].edge = 0 \/ args.profiles[2].edge = 0

\* C7: if the density or temperature profile has edge value 0, context
\* construction fails with a normalization error before any per-velocity
\* work; no context with a zero density or temperature normalization is
\* used by the resonance search or the integrator.
C7_ZeroEdgeFailsFast ==
    /\ (ZeroEdge /\ pc \notin {"check", "context"} /\ args.EinsteinA # 0
           /\ raised.type # "despoticError") =>
          /\ pc = "raised"
          /\ raised.type = "NormalizationError"
    /\ pencils # <<>> => (te.d0 # 0 /\ te.T0 # 0)

\* C8: with beam dispersion > 0, the evaluation the quadrature makes at node
\* r is computed for impact parameter r: the offset of the radius in the
\* derivative and the exterior limits +-sqrt(1 - offset^2) use offset = r.
C8_NodeIsImpactParameter ==
    args.beamdisp > 0 =>
        \A n \in 1..Len(pencils) :
            LET r == pencils[n].node[1]
                e == pencils[n].eval
            IN /\ e.offset = r
               /\ \A k \in 1..Len(e.calls) : e.calls[k].rhsOffset = r
               /\ e.branch = "exterior" =>
                     /\ e.calls[1].from = -ISqrt(Edge * Edge - 10000 * r * r)
                     /\ e.calls[1].to = ISqrt(Edge * Edge - 10000 * r * r)

\* C9: for every x* the resonance search returns, the integrator takes the
\* interior branch (ten breakpoints, nine segments) exactly when |x*| < 1
\* and the exterior branch (one linear interval) exactly when |x*| >= 1; a
\* result x* <= -1 selects the exterior branch.
C9_BranchOnMagnitude ==
    \A n \in 1..Len(pencils) :
        LET e == pencils[n].eval
        IN IF Abs(e.r_los) < Edge
             THEN e.branch = "interior" /\ Len(e.calls) = 9
             ELSE /\ e.branch = "exterior"
                  /\ Len(e.calls) = 1
                  /\ e.calls[1].fn = "rhs"

SignOf(n) == IF n > 0 THEN 1 ELSE IF n < 0 THEN -1 ELSE 0

\* C10: in the interior branch with 0 < x* < 1 the nine segments are
\* integrated in order, the first from ICMB and each later one from its
\* predecessor's result, and they cover [-1,1]; each of the eight
\* log-coordinate segments [a,b] runs from log|a| to log|b| with sgn the
\* common sign of a and b (never 0), and only [-x*/100, x*/100] is linear.
C10_InteriorSegments ==
    \A n \in 1..Len(pencils) :
        LET e == pencils[n].eval
            c == e.calls
        IN (0 < e.r_los /\ e.r_los < Edge) =>
             /\ Len(c) = 9
             /\ c[1].from = -Edge
             /\ c[9].to = Edge
             /\ \A k \in 1..9 : c[k].y0 = k - 1
             /\ \A k \in 1..8 : c[k].to = c[k + 1].from
             /\ \A k \in 1..9 :
                   IF k = 5
                     THEN /\ c[k].fn = "rhs"
                          /\ c[k].from = -(e.r_los \div 100)
                          /\ c[k].to = e.r_los \div 100
                     ELSE /\ c[k].fn = "rhs_log"
                          /\ c[k].sgn \in {-1, 1}
                          /\ c[k].sgn = SignOf(c[k].from)
                          /\ c[k].sgn = SignOf(c[k].to)
                          /\ c[k].t0 = Log(Abs(c[k].from))
                          /\ c[k].t1 = Log(Abs(c[k].to))

=============================================================================
